---------------------------- MODULE Spec2Model ----------------------------
(***************************************************************************)
(* A model of ambassador/config.py: the Config aggregate, its ingestion    *)
(* loop load_all, object processing, schema validation, the kind handlers  *)
(* and the bucketed store.                                                 *)
(*                                                                         *)
(* Python dicts are functions with a finite DOMAIN.  Resource objects live *)
(* in a heap indexed by resource id; their two mutable fields (location    *)
(* and the attached error list) are the variables location and rerrors.    *)
(* A method of Config is an operator from the "world" (the aggregate's     *)
(* fields plus the heap) to the world after the call, together with the    *)
(* value returned or the fact that an exception left the method.           *)
(***************************************************************************)
EXTENDS Naturals, Sequences, FiniteSets, TLC

VARIABLES
    config,              \* Config.config: bucket -> (name -> stored resource)
    sources,             \* Config.sources: rkey -> resource id
    location_overrides,  \* Config.location_overrides: rkey -> (key -> string)
    schemas,             \* Config.schemas: schema key -> schema
    errors,              \* Config.errors: rkey -> sequence of error records
    fatal_errors,        \* Config.fatal_errors
    object_errors,       \* Config.object_errors
    current_resource,    \* Config.current_resource: resource id or "None"
    location,            \* Resource.location of every resource object
    rerrors,             \* errors attached to every resource object
    pc,                  \* where load_all stands: idle, loading, returned, raised
    resources,           \* the argument of the load_all call in progress (or last made)
    idx,                 \* position of the for loop in resources
    rc,                  \* what the last loop iteration got back from process
    used,                \* resources handed to load_all so far, over all calls
    pass,                \* 1: the first Config built; 2: a second, fresh Config
    first                \* what the first Config held when the second was built

vars == <<config, sources, location_overrides, schemas, errors, fatal_errors,
          object_errors, current_resource, location, rerrors, pc, resources,
          idx, rc, used, pass, first>>

(***************************************************************************)
(* Bounds of the model.                                                    *)
(***************************************************************************)
\* Total number of resources handed to load_all on one Config, over all calls.
MaxResources == 3

(***************************************************************************)
(* Dict helpers.                                                           *)
(***************************************************************************)
EmptyDict == << >>

Put(d, k, v) == [x \in (DOMAIN d) \cup {k} |-> IF x = k THEN v ELSE d[x]]

\* dict.setdefault(k, v), as the dict after the call
SetDefault(d, k, v) == IF k \in DOMAIN d THEN d ELSE Put(d, k, v)

\* dict.get(k, default)
Get(d, k, default) == IF k \in DOMAIN d THEN d[k] ELSE default

(***************************************************************************)
(* Resources.  The Resource class is imported from .resource; here is what *)
(* config.py reads of it.  A missing apiVersion is the empty sequence, a   *)
(* missing kind the empty string; apiVersion is kept as its '/'-separated  *)
(* segments.  ambassador_id is absent, a string, or a list of strings.     *)
(* satisfies names the schemas (by version and kind) that the payload      *)
(* conforms to.  unwrapped tells the resource Resource.from_resource makes *)
(* of a Module (its config element promoted) from the resource parsed.     *)
(***************************************************************************)
AmbAbsent == [present |-> FALSE, isList |-> FALSE, ids |-> << >>]
AmbStr(s) == [present |-> TRUE, isList |-> FALSE, ids |-> <<s>>]
AmbList(l) == [present |-> TRUE, isList |-> TRUE, ids |-> l]

NoConfig == << >>

Res(id, rkey, kind, apiVersion, hasName, name, amb, hasSource, source, satisfies, cfg) ==
    [id |-> id, unwrapped |-> FALSE, rkey |-> rkey, kind |-> kind, apiVersion |-> apiVersion,
     hasName |-> hasName, name |-> name, ambassador_id |-> amb,
     hasSource |-> hasSource, source |-> source,
     satisfies |-> satisfies, config |-> cfg]

V0 == <<"ambassador", "v0">>
V1 == <<"ambassador", "v1">>
V0Beta == <<"ambassador", "v0-beta">>

Catalog ==
    [ m1     |-> Res("m1", "f1", "Mapping", V0, TRUE, "a", AmbAbsent,
                     FALSE, "", {<<"v0", "Mapping">>}, NoConfig),
      m2     |-> Res("m2", "f2", "Mapping", V0, TRUE, "a", AmbList(<<"other", "default">>),
                     FALSE, "", {<<"v0", "Mapping">>}, NoConfig),
      m3     |-> Res("m3", "f1", "Mapping", V1, TRUE, "b", AmbAbsent,
                     FALSE, "", {<<"v0", "Mapping">>}, NoConfig),
      a1     |-> Res("a1", "f2", "AuthService", V0, TRUE, "b", AmbStr("default"),
                     FALSE, "", {}, NoConfig),
      w1     |-> Res("w1", "f3", "Widget", V0, TRUE, "a", AmbAbsent,
                     FALSE, "", {}, NoConfig),
      lm     |-> Res("lm", "f3", "mappings", V0, TRUE, "a", AmbAbsent,
                     FALSE, "", {}, NoConfig),
      lp     |-> Res("lp", "f1", "pragma", V0, TRUE, "z", AmbAbsent,
                     TRUE, "s9", {}, NoConfig),
      p1     |-> Res("p1", "f1", "Pragma", V0, FALSE, "", AmbAbsent,
                     TRUE, "s1", {}, NoConfig),
      p2     |-> Res("p2", "f1", "Pragma", V0, FALSE, "", AmbAbsent,
                     TRUE, "s2", {}, NoConfig),
      p3     |-> Res("p3", "f2", "Pragma", V0, FALSE, "", AmbAbsent,
                     FALSE, "", {}, NoConfig),
      x1     |-> Res("x1", "f1", "Mapping", V0, TRUE, "c", AmbStr("other"),
                     FALSE, "", {<<"v0", "Mapping">>}, NoConfig),
      x2     |-> Res("x2", "f3", "Mapping", V0, TRUE, "d", AmbList(<< >>),
                     FALSE, "", {<<"v0", "Mapping">>}, NoConfig),
      x3     |-> Res("x3", "f2", "AuthService", V0, TRUE, "b", AmbList(<<"other">>),
                     FALSE, "", {}, NoConfig),
      noapi  |-> Res("noapi", "f3", "Mapping", << >>, TRUE, "c", AmbAbsent,
                     FALSE, "", {<<"v0", "Mapping">>}, NoConfig),
      nokind |-> Res("nokind", "f3", "", V0, TRUE, "c", AmbAbsent,
                     FALSE, "", {}, NoConfig),
      noname |-> Res("noname", "f2", "Mapping", V0, FALSE, "", AmbAbsent,
                     FALSE, "", {<<"v0", "Mapping">>}, NoConfig),
      unsup  |-> Res("unsup", "f2", "Mapping", <<"other", "v0">>, TRUE, "c", AmbAbsent,
                     FALSE, "", {<<"v0", "Mapping">>}, NoConfig),
      unsup2 |-> Res("unsup2", "f3", "Widget", <<"ambassador">>, TRUE, "c", AmbAbsent,
                     FALSE, "", {}, NoConfig),
      rl1    |-> Res("rl1", "f2", "RateLimitService", V0, TRUE, "a", AmbAbsent,
                     FALSE, "", {}, NoConfig),
      tr1    |-> Res("tr1", "f3", "TracingService", V0, TRUE, "a", AmbAbsent,
                     FALSE, "", {}, NoConfig),
      bm1    |-> Res("bm1", "f1", "beta-Mapping", V0, TRUE, "e", AmbAbsent,
                     FALSE, "", {<<"v0", "beta-Mapping">>}, NoConfig),
      mb1    |-> Res("mb1", "f2", "Mapping", V0Beta, TRUE, "f", AmbAbsent,
                     FALSE, "", {<<"v0", "Mapping">>}, NoConfig),
      mod1   |-> Res("mod1", "f3", "Module", V0, TRUE, "ambassador", AmbAbsent,
                     FALSE, "", {<<"v0", "Module">>}, [foo |-> "bar"]),
      internal    |-> Res("internal", "--internal--", "Internal", V0, TRUE, "Ambassador Internals",
                     AmbAbsent, FALSE, "", {}, NoConfig),
      diagnostics |-> Res("diagnostics", "--diagnostics--", "Diagnostics", V0, TRUE,
                     "Ambassador Diagnostics", AmbAbsent, FALSE, "", {}, NoConfig) ]

\* Resource.internal_resource() and Resource.diagnostics_resource()
internal_resource == "internal"
diagnostics_resource == "diagnostics"

ResIds == DOMAIN Catalog

\* The resources a caller may hand to load_all.
Inputs == ResIds \ {internal_resource, diagnostics_resource}

\* Resource.location as the resource was constructed: its rkey, until a
\* Pragma overrides it.
InitialLocation(r) == r.rkey


(***************************************************************************)
(* The environment: the configured identity and the schema directory.      *)
(***************************************************************************)
\* Config.ambassador_id, from AMBASSADOR_ID
AmbassadorId == "default"

\* What open() and json.load find at schema_dir_path/<version>/<kind>.schema:
\* a JSON-Schema document, a file that is not JSON, a JSON document that is
\* falsy in Python ({}), or no file.
SchemaFile(version, kind) ==
    CASE <<version, kind>> = <<"v0", "Mapping">>     -> "schema"
      [] <<version, kind>> = <<"v1", "Mapping">>     -> "schema"
      [] <<version, kind>> = <<"v0", "Module">>      -> "schema"
      [] <<version, kind>> = <<"v0", "Pragma">>      -> "schema"
      [] <<version, kind>> = <<"v0", "AuthService">> -> "corrupt"
      [] <<version, kind>> = <<"v0", "mappings">>    -> "empty"
      [] <<version, kind>> = <<"v0", "beta-Mapping">> -> "schema"
      [] OTHER                                       -> "absent"

\* The document json.load returns for a well-formed schema file.
SchemaDocument(version, kind) == [schema |-> <<version, kind>>]

\* jsonschema.validate(resource.as_dict(), schema) raises no ValidationError
Validates(r, schema) == schema.schema \in r.satisfies

\* str.lower() on the kinds
Lower(kind) ==
    CASE kind = "Mapping"     -> "mapping"
      [] kind = "AuthService" -> "authservice"
      [] kind = "RateLimitService" -> "ratelimitservice"
      [] kind = "TracingService"   -> "tracingservice"
      [] kind = "beta-Mapping"     -> "beta-mapping"
      [] kind = "Module"      -> "module"
      [] kind = "Widget"      -> "widget"
      [] kind = "Pragma"      -> "pragma"
      [] OTHER                -> kind

(***************************************************************************)
(* RichStatus, from .utils: OK or an error, with the message as its        *)
(* format string and the values formatted into it.                         *)
(***************************************************************************)
OK(msg, args) == [ok |-> TRUE, msg |-> msg, args |-> args]
fromError(msg, args) == [ok |-> FALSE, msg |-> msg, args |-> args]

\* RichStatus.toDict()
toDict(status) ==
    IF status.ok
    THEN [ok |-> TRUE, key |-> "message", text |-> status.msg, args |-> status.args]
    ELSE [ok |-> FALSE, key |-> "error", text |-> status.msg, args |-> status.args]

\* No RichStatus assigned yet.
NoRc == [ok |-> TRUE, msg |-> "None", args |-> << >>]

(***************************************************************************)
(* The world: the Config aggregate's fields and the resource heap.         *)
(***************************************************************************)
World ==
    [config |-> config, sources |-> sources,
     location_overrides |-> location_overrides, schemas |-> schemas,
     errors |-> errors, fatal_errors |-> fatal_errors,
     object_errors |-> object_errors, current_resource |-> current_resource,
     location |-> location, rerrors |-> rerrors]

\* A save_source that keys the source by the resource's location.
save_source_ByLocation(w, r) ==
    [w EXCEPT !.sources = Put(@, w.location[r.id], r.id)]

\* Config.save_source
save_source(w, r) ==
    [w EXCEPT !.sources = Put(@, r.rkey, r.id)]

\* A reset that leaves the overrides of the Config before it in place.
reset_KeepsOverrides(w) ==
    save_source(
        save_source(
            [w EXCEPT !.current_resource = "None",
                      !.schemas = EmptyDict,
                      !.config = EmptyDict,
                      !.sources = EmptyDict,
                      !.errors = EmptyDict,
                      !.fatal_errors = 0,
                      !.object_errors = 0],
            Catalog[internal_resource]),
        Catalog[diagnostics_resource])

\* Config._reset: every field of the aggregate back to its default, and the
\* two bootstrap resources saved as sources.  The heap is not the Config's.
reset(w) ==
    save_source(
        save_source(
            [w EXCEPT !.current_resource = "None",
                      !.schemas = EmptyDict,
                      !.config = EmptyDict,
                      !.sources = EmptyDict,
                      !.location_overrides = EmptyDict,
                      !.errors = EmptyDict,
                      !.fatal_errors = 0,
                      !.object_errors = 0],
            Catalog[internal_resource]),
        Catalog[diagnostics_resource])

\* An error posted without the resource being saved as a source.
post_error_NoSource(w, status, r) ==
    [w EXCEPT
        !.rerrors[r.id] = Append(@, toDict(status)),
        !.errors = Put(@, r.rkey, Append(Get(@, r.rkey, << >>), toDict(status)))]

\* A post_error that starts the rkey's list of errors afresh.
post_error_Replaces(w, status, r) ==
    [save_source(w, r) EXCEPT
        !.rerrors[r.id] = Append(@, toDict(status)),
        !.errors = Put(@, r.rkey, <<toDict(status)>>)]

\* A post_error that counts the error in object_errors.
post_error_Counts(w, status, r) ==
    [save_source(w, r) EXCEPT
        !.rerrors[r.id] = Append(@, toDict(status)),
        !.errors = Put(@, r.rkey, Append(Get(@, r.rkey, << >>), toDict(status))),
        !.object_errors = @ + 1]

\* Config.post_error, called with its resource argument
post_error(w, status, r) ==
    [save_source(w, r) EXCEPT
        !.rerrors[r.id] = Append(@, toDict(status)),
        !.errors = Put(@, r.rkey, Append(Get(@, r.rkey, << >>), toDict(status)))]

(***************************************************************************)
(* Schema validation.                                                      *)
(***************************************************************************)
\* apiVersion.startswith("ambassador/")
StartsWithAmbassador(apiVersion) ==
    Len(apiVersion) >= 2 /\ apiVersion[1] = "ambassador"

\* "%s-%s" % (apiVersion, resource.kind), after the prefix is stripped
SchemaKey(version, kind) == version \o "-" \o kind

\* The part of validate_object that finds the schema: the cache, then the
\* directory.  Gives the cache after the lookup and the schema found
\* (found = FALSE: the Python schema is None or falsy).
LoadSchema(cache, version, kind) ==
    IF SchemaKey(version, kind) \in DOMAIN cache
    THEN [schemas |-> cache, found |-> TRUE, schema |-> cache[SchemaKey(version, kind)]]
    ELSE IF SchemaFile(version, kind) = "schema"
         THEN [schemas |-> Put(cache, SchemaKey(version, kind),
                               SchemaDocument(version, kind)),
               found |-> TRUE, schema |-> SchemaDocument(version, kind)]
         ELSE [schemas |-> cache, found |-> FALSE,
               schema |-> SchemaDocument(version, kind)]

\* A validation that wants a schema: a kind without one is not valid.
ValidateAgainst_SchemaRequired(w, r, l) ==
    IF ~l.found \/ ~Validates(r, l.schema)
    THEN [w |-> [w EXCEPT !.schemas = l.schemas],
          rc |-> fromError("not a valid %s: %s", <<r.kind>>)]
    ELSE [w |-> [w EXCEPT !.schemas = l.schemas],
          rc |-> OK("valid %s", <<r.kind>>)]

\* The end of validate_object: l is what LoadSchema found
ValidateAgainst(w, r, l) ==
    IF l.found /\ ~Validates(r, l.schema)
    THEN [w |-> [w EXCEPT !.schemas = l.schemas],
          rc |-> fromError("not a valid %s: %s", <<r.kind>>)]
    ELSE [w |-> [w EXCEPT !.schemas = l.schemas],
          rc |-> OK("valid %s", <<r.kind>>)]

\* A validate_object that looks the schema up before it tests the prefix.
validate_object_LoadFirst(w, r) ==
    IF ~(r.apiVersion # << >> /\ r.kind # "" /\ r.hasName)
    THEN [w |-> w, rc |-> fromError("must have apiVersion, kind, and name", << >>)]
    ELSE IF ~StartsWithAmbassador(r.apiVersion)
    THEN [w |-> [w EXCEPT !.schemas =
                    LoadSchema(@, r.apiVersion[Len(r.apiVersion)], r.kind).schemas],
          rc |-> fromError("apiVersion %s unsupported", r.apiVersion)]
    ELSE ValidateAgainst(w, r, LoadSchema(w.schemas, r.apiVersion[2], r.kind))

\* Config.validate_object: the world after the call and the RichStatus returned
validate_object(w, r) ==
    IF ~(r.apiVersion # << >> /\ r.kind # "" /\ r.hasName)
    THEN [w |-> w, rc |-> fromError("must have apiVersion, kind, and name", << >>)]
    ELSE IF ~StartsWithAmbassador(r.apiVersion)
    THEN [w |-> w, rc |-> fromError("apiVersion %s unsupported", r.apiVersion)]
    ELSE ValidateAgainst(w, r, LoadSchema(w.schemas, r.apiVersion[2], r.kind))

(***************************************************************************)
(* The store and the handlers.  A bucket holds, under a name, a reference  *)
(* to the resource stored: the resource parsed, or the one made from it by *)
(* Resource.from_resource.                                                 *)
(***************************************************************************)
Stored(r) == [res |-> r.id, unwrapped |-> r.unwrapped]

\* Resource.from_resource(resource, kind="Module", **resource.config)
from_resource(r) == [r EXCEPT !.unwrapped = TRUE, !.kind = "Module"]

\* A store that rebinds a name its bucket already holds.
safe_store_Overwrite(w, storage_name, r) ==
    [w |-> [w EXCEPT !.config =
                Put(@, storage_name,
                    Put(Get(@, storage_name, EmptyDict), r.name, Stored(r)))],
     raised |-> FALSE]

\* A store that wants a name to be new in every bucket, not only in its own.
safe_store_GlobalNames(w, storage_name, r) ==
    IF \E b \in DOMAIN w.config : r.name \in DOMAIN w.config[b]
    THEN [w |-> [w EXCEPT !.config = SetDefault(@, storage_name, EmptyDict)],
          raised |-> TRUE]
    ELSE [w |-> [w EXCEPT !.config =
                    Put(@, storage_name,
                        Put(Get(@, storage_name, EmptyDict), r.name, Stored(r)))],
          raised |-> FALSE]

\* Config.safe_store: the world after the call, and whether it raised
safe_store(w, storage_name, r) ==
    IF r.name \in DOMAIN SetDefault(w.config, storage_name, EmptyDict)[storage_name]
    THEN [w |-> [w EXCEPT !.config = SetDefault(@, storage_name, EmptyDict)],
          raised |-> TRUE]
    ELSE [w |-> [w EXCEPT !.config =
                    Put(@, storage_name,
                        Put(Get(@, storage_name, EmptyDict), r.name, Stored(r)))],
          raised |-> FALSE]

\* Config.save_object
save_object(w, r) == safe_store(w, r.kind, r)

\* Python's None, as a value an accessor returns
None == [none |-> TRUE]

\* Config.get_config
get_config(w, key) == Get(w.config, key, None)

\* Config.get_module: None when there is no "modules" bucket (or an empty one)
get_module(w, module_name) ==
    IF get_config(w, "modules") # None /\ DOMAIN get_config(w, "modules") # {}
    THEN Get(get_config(w, "modules"), module_name, None)
    ELSE None

\* Resource.get(key, default) on a stored resource: the resource made from
\* a Module exposes the keys of the Module's config element; a resource
\* stored as it was parsed has its config element under "config", not
\* promoted.
ResourceGet(e, key, default) ==
    IF e.unwrapped
    THEN Get(Catalog[e.res].config, key, default)
    ELSE default

\* Config.module_lookup
module_lookup(w, module_name, key, default) ==
    IF get_module(w, module_name) # None
    THEN ResourceGet(get_module(w, module_name), key, default)
    ELSE default

\* A Pragma handler that also records the Pragma as a source.
handle_pragma_SavesSource(w, r) ==
    [w |-> IF r.hasSource
           THEN [save_source(w, r) EXCEPT !.location_overrides =
                    Put(@, r.rkey, Put(Get(@, r.rkey, EmptyDict), "source", r.source))]
           ELSE save_source(w, r),
     rc |-> OK("handled pragma object", << >>)]

\* Config.handle_pragma: the world after the call and the RichStatus returned
handle_pragma(w, r) ==
    [w |-> IF r.hasSource
           THEN [w EXCEPT !.location_overrides =
                    Put(@, r.rkey, Put(Get(@, r.rkey, EmptyDict), "source", r.source))]
           ELSE w,
     rc |-> OK("handled pragma object", << >>)]

\* A Module handler that stores the Module as it was parsed.
handle_module_Verbatim(w, r) == safe_store(w, "modules", r)

\* Config.handle_module
handle_module(w, r) == safe_store(w, "modules", from_resource(r))

\* Config.handle_ratelimitservice
handle_ratelimitservice(w, r) == safe_store(w, "ratelimit_configs", r)

\* Config.handle_tracingservice
handle_tracingservice(w, r) == safe_store(w, "tracing_configs", r)

\* An AuthService handler that files under the Mapping bucket.
handle_authservice_Mappings(w, r) == safe_store(w, "mappings", r)

\* Config.handle_authservice
handle_authservice(w, r) == safe_store(w, "auth_configs", r)

\* Config.handle_mapping
handle_mapping(w, r) == safe_store(w, "mappings", r)

\* getattr(self, "handle_%s" % resource.kind.lower(), None), falling back to
\* save_object, and the call handler(resource); h is the lowered kind
Dispatch(w, r, h) ==
    CASE h = "pragma"           -> [w |-> handle_pragma(w, r).w, raised |-> FALSE]
      [] h = "module"           -> handle_module(w, r)
      [] h = "ratelimitservice" -> handle_ratelimitservice(w, r)
      [] h = "tracingservice"   -> handle_tracingservice(w, r)
      [] h = "authservice"      -> handle_authservice(w, r)
      [] h = "mapping"          -> handle_mapping(w, r)
      [] OTHER                  -> save_object(w, r)

(***************************************************************************)
(* Config.process: the world after the call, the RichStatus returned, and  *)
(* whether an exception left it instead.                                   *)
(***************************************************************************)
\* A process that turns a handler's exception into a failure it returns.
AfterHandler_ReturnsError(h, r) ==
    IF h.raised
    THEN [w |-> h.w,
          rc |-> fromError("%s: could not process %s object: %s", <<r.kind>>),
          raised |-> FALSE]
    ELSE [w |-> [h.w EXCEPT !.current_resource = "None"],
          rc |-> OK("%s object processed successfully", <<r.kind>>),
          raised |-> FALSE]

\* The end of process: h is what the handler did
AfterHandler(h, r) ==
    IF h.raised
    THEN [w |-> h.w, rc |-> NoRc, raised |-> TRUE]
    ELSE [w |-> [h.w EXCEPT !.current_resource = "None"],
          rc |-> OK("%s object processed successfully", <<r.kind>>),
          raised |-> FALSE]

\* process once validate_object has returned v
AfterValidate(v, r) ==
    IF ~v.rc.ok
    THEN [w |-> v.w, rc |-> v.rc, raised |-> FALSE]
    ELSE AfterHandler(Dispatch(v.w, r, Lower(r.kind)), r)

\* process once current_resource is set
ProcessCurrent(w, r) ==
    IF r.apiVersion = << >>
    THEN [w |-> w, rc |-> fromError("need apiVersion", << >>), raised |-> FALSE]
    ELSE IF r.kind = ""
    THEN [w |-> w, rc |-> fromError("need kind", << >>), raised |-> FALSE]
    ELSE IF r.kind = "Pragma"
    THEN [w |-> handle_pragma(w, r).w, rc |-> handle_pragma(w, r).rc, raised |-> FALSE]
    ELSE IF ~r.hasName
    THEN [w |-> w, rc |-> fromError("need name", << >>), raised |-> FALSE]
    ELSE AfterValidate(validate_object(save_source(w, r), r), r)

process(w, r) == ProcessCurrent([w EXCEPT !.current_resource = r.id], r)

(***************************************************************************)
(* Config.load_all, one resource of the for loop at a time.                *)
(***************************************************************************)
\* resource.get('ambassador_id', 'default')
AllowedIds(r) ==
    IF r.ambassador_id.present THEN r.ambassador_id ELSE AmbStr("default")

\* Python's truth value of a string or a list
Truthy(a) == IF a.isList THEN Len(a.ids) > 0 ELSE a.ids[1] # ""

\* allowed_ids, made a list, does not hold Config.ambassador_id
NotIn(ident, a) == ~(\E i \in 1..Len(a.ids) : a.ids[i] = ident)

\* A filter that tests a string only, and lets every list through.
Skipped_StringsOnly(r) ==
    /\ ~AllowedIds(r).isList
    /\ Truthy(AllowedIds(r))
    /\ NotIn(AmbassadorId, AllowedIds(r))

\* The filter of load_all
Skipped(r) == Truthy(AllowedIds(r)) /\ NotIn(AmbassadorId, AllowedIds(r))

\* The override at the top of the loop body
ApplyOverride(w, r) ==
    IF r.rkey \in DOMAIN w.location_overrides
    THEN [w EXCEPT !.location[r.id] = Get(w.location_overrides[r.rkey], "source", r.rkey)]
    ELSE w

\* The loop body once process has returned p (or raised): old is the rc the
\* loop held before
AfterProcess(p, old, r) ==
    IF p.raised
    THEN [w |-> p.w, rc |-> old, ends |-> "raise"]
    ELSE IF ~p.rc.ok
    THEN [w |-> post_error(p.w, p.rc, r), rc |-> p.rc, ends |-> "next"]
    ELSE [w |-> p.w, rc |-> p.rc, ends |-> "next"]

\* The loop body after the override
FilterAndProcess(w, old, r) ==
    IF Skipped(r)
    THEN [w |-> w, rc |-> old, ends |-> "return"]
    ELSE AfterProcess(process(w, r), old, r)

\* One pass through the loop body: the world after it, the rc the loop holds,
\* and how the body ends: "next" (on to the next resource), "return" (the
\* return in the filter) or "raise".
LoopBody(w, old, r) == FilterAndProcess(ApplyOverride(w, r), old, r)

\* The checks after the loop: "raised" or "returned"
AfterLoop(w) == IF w.fatal_errors # 0 THEN "raised" ELSE "returned"

(***************************************************************************)
(* The state machine.                                                      *)
(***************************************************************************)
SetWorld(w) ==
    /\ config' = w.config
    /\ sources' = w.sources
    /\ location_overrides' = w.location_overrides
    /\ schemas' = w.schemas
    /\ errors' = w.errors
    /\ fatal_errors' = w.fatal_errors
    /\ object_errors' = w.object_errors
    /\ current_resource' = w.current_resource
    /\ location' = w.location
    /\ rerrors' = w.rerrors

InitWorld(w) ==
    /\ config = w.config
    /\ sources = w.sources
    /\ location_overrides = w.location_overrides
    /\ schemas = w.schemas
    /\ errors = w.errors
    /\ fatal_errors = w.fatal_errors
    /\ object_errors = w.object_errors
    /\ current_resource = w.current_resource
    /\ location = w.location
    /\ rerrors = w.rerrors

\* The fields of a Config object before __init__ has run, and the heap as
\* the resources were constructed.
Blank ==
    [config |-> EmptyDict, sources |-> EmptyDict, location_overrides |-> EmptyDict,
     schemas |-> EmptyDict, errors |-> EmptyDict, fatal_errors |-> 0,
     object_errors |-> 0, current_resource |-> "None",
     location |-> [id \in ResIds |-> InitialLocation(Catalog[id])],
     rerrors |-> [id \in ResIds |-> << >>]]

\* The bucket contents as a reader of the Config sees them: every stored
\* resource with its location and the errors attached to it.
Contents(w) ==
    [b \in DOMAIN w.config |->
        [n \in DOMAIN w.config[b] |->
            [res |-> w.config[b][n].res,
             unwrapped |-> w.config[b][n].unwrapped,
             location |-> w.location[w.config[b][n].res],
             errors |-> w.rerrors[w.config[b][n].res]]]]

NoFirst == [config |-> EmptyDict, errors |-> EmptyDict, pc |-> "idle"]

\* Config.__init__
Init ==
    /\ InitWorld(reset(Blank))
    /\ pc = "idle"
    /\ resources = << >>
    /\ idx = 1
    /\ rc = NoRc
    /\ used = 0
    /\ pass = 1
    /\ first = NoFirst

\* A caller calls load_all(resources).
StartLoadAll ==
    /\ pc # "loading"
    /\ pass = 1
    /\ \E n \in 0..(MaxResources - used) :
         \E rs \in [1..n -> Inputs] :
            /\ resources' = rs
            /\ used' = used + n
    /\ idx' = 1
    /\ pc' = "loading"
    /\ UNCHANGED <<config, sources, location_overrides, schemas, errors,
                   fatal_errors, object_errors, current_resource, location,
                   rerrors, rc, pass, first>>

\* What one pass b through the loop body leaves behind
Commit(b) ==
    /\ SetWorld(b.w)
    /\ rc' = b.rc
    /\ idx' = idx + 1
    /\ pc' = CASE b.ends = "next"   -> "loading"
               [] b.ends = "return" -> "returned"
               [] b.ends = "raise"  -> "raised"

\* The loop body of load_all on the next resource.
LoadAllNext ==
    /\ pc = "loading"
    /\ idx <= Len(resources)
    /\ Commit(LoopBody(World, rc, Catalog[resources[idx]]))
    /\ UNCHANGED <<resources, used, pass, first>>

\* The loop is over: the checks at the end of load_all.
LoadAllEnd ==
    /\ pc = "loading"
    /\ idx > Len(resources)
    /\ pc' = AfterLoop(World)
    /\ UNCHANGED <<config, sources, location_overrides, schemas, errors,
                   fatal_errors, object_errors, current_resource, location,
                   rerrors, resources, idx, rc, used, pass, first>>

Next == StartLoadAll \/ LoadAllNext \/ LoadAllEnd

Spec == Init /\ [][Next]_vars

\* A second pass: once the one load_all call made on the first Config is
\* over, a second Config is constructed and load_all is called on it with the
\* same resources, as they were handed to the first (a resource object keeps
\* the location and the errors a pass gives it, so the same input is the
\* resources as constructed).  What the first Config held is kept in first,
\* to compare.
FreshPass ==
    /\ pass = 1
    /\ pc \in {"returned", "raised"}
    /\ used = Len(resources)
    /\ first' = [config |-> Contents(World), errors |-> errors, pc |-> pc]
    /\ SetWorld([reset(World) EXCEPT !.location = Blank.location,
                                     !.rerrors = Blank.rerrors])
    /\ pass' = 2
    /\ pc' = "loading"
    /\ idx' = 1
    /\ rc' = NoRc
    /\ UNCHANGED <<resources, used>>

NextFresh == StartLoadAll \/ LoadAllNext \/ LoadAllEnd \/ FreshPass

SpecFresh == Init /\ [][NextFresh]_vars

(***************************************************************************)
(* Vocabulary of the properties.                                           *)
(***************************************************************************)
Range(f) == {f[x] : x \in DOMAIN f}

\* The next step of load_all is its loop body, on resource Cur.
Handling == pc = "loading" /\ idx <= Len(resources)
Cur == Catalog[resources[idx]]

\* The loop body has just run.
Stepped == idx' # idx

\* The resource the loop body handled last.
Last == Catalog[resources[idx - 1]]
Handled == idx > 1

\* Resource id is held by sources or by some bucket.
InSources(id) == id \in Range(sources)
InBuckets(id) == \E b \in DOMAIN config : \E n \in DOMAIN config[b] : config[b][n].res = id
Appears(id) == InSources(id) \/ InBuckets(id)

\* The ambassador_id of r, a single id or a list of ids, does not hold the
\* configured identity (an absent ambassador_id stands for "default").
Excludes(r) ==
    IF r.ambassador_id.present
    THEN \A i \in 1..Len(r.ambassador_id.ids) : r.ambassador_id.ids[i] # AmbassadorId
    ELSE AmbassadorId # "default"

\* The same, for an ambassador_id that is a non-empty string or a non-empty list.
Foreign(r) ==
    /\ Excludes(r)
    /\ r.ambassador_id.present
    /\ r.ambassador_id.ids # << >>
    /\ r.ambassador_id.ids # <<"">>

\* The bucket the handlers file a kind under.
BucketFor(kind) ==
    CASE Lower(kind) = "module"           -> "modules"
      [] Lower(kind) = "ratelimitservice" -> "ratelimit_configs"
      [] Lower(kind) = "tracingservice"   -> "tracing_configs"
      [] Lower(kind) = "authservice"      -> "auth_configs"
      [] Lower(kind) = "mapping"          -> "mappings"
      [] OTHER                            -> kind

\* r is an ordinary resource with its three fields.
Complete(r) == r.apiVersion # << >> /\ r.kind # "" /\ r.kind # "Pragma" /\ r.hasName

\* r passes the filter, has its fields and validates in the present state.
Storable(r) == ~Skipped(r) /\ Complete(r) /\ validate_object(World, r).rc.ok

(***************************************************************************)
(* C1.  Ownership filter.                                                  *)
(***************************************************************************)
\* C1 as stated: a resource whose ambassador_id (a single id or a list of
\* ids, including the empty list) does not hold the configured identity
\* never appears in sources or in a bucket, and handling it adds nothing to
\* the errors ledger.
C1_Original ==
    [][ /\ \A id \in Inputs : Excludes(Catalog[id]) => ~Appears(id)'
        /\ (Handling /\ Stepped /\ Excludes(Cur)) =>
               /\ errors' = errors
               /\ sources' = sources
               /\ config' = config ]_vars

\* C1, amended: a resource whose ambassador_id is a non-empty id or a
\* non-empty list of ids that does not hold the configured identity never
\* appears in sources or in a bucket, and handling it adds nothing to the
\* errors ledger (nor to sources, nor to a bucket).
C1_OwnershipFilter ==
    [][ /\ \A id \in Inputs : Foreign(Catalog[id]) => ~Appears(id)'
        /\ (Handling /\ Stepped /\ Foreign(Cur)) =>
               /\ errors' = errors
               /\ sources' = sources
               /\ config' = config ]_vars

\* A resource of another identity has been handled after one that was stored.
C1_Witness ==
    /\ Handled
    /\ Foreign(Last)
    /\ pc = "returned"
    /\ DOMAIN config # {}

(***************************************************************************)
(* C2.  The filter skips one resource, not the rest of the sequence.       *)
(***************************************************************************)
\* C2 as stated: load_all goes on after a resource the filter skips, so when
\* it returns its loop has handled the whole sequence, and every resource of
\* the sequence that holds the configured identity and can be stored is in
\* sources.
C2_SkipOnlyOne ==
    pc = "returned" =>
        /\ idx > Len(resources)
        /\ \A i \in 1..Len(resources) :
              (~Excludes(Catalog[resources[i]]) /\ Complete(Catalog[resources[i]]))
                  => Catalog[resources[i]].rkey \in DOMAIN sources

(***************************************************************************)
(* C3.  Names are unique within a bucket; a duplicate raises.              *)
(***************************************************************************)
\* C3: every bucket holds a resource under that resource's own name, no step
\* removes or rebinds an entry of a bucket, and storing a resource whose name
\* its bucket already holds raises and leaves the bucket as it was.
C3_BucketUniqueness ==
    [][ /\ \A b \in DOMAIN config' : \A n \in DOMAIN config'[b] :
              Catalog[config'[b][n].res].name = n
        /\ \A b \in DOMAIN config :
              /\ b \in DOMAIN config'
              /\ \A n \in DOMAIN config[b] :
                    n \in DOMAIN config'[b] /\ config'[b][n] = config[b][n]
        /\ (/\ Handling /\ Stepped /\ Storable(Cur)
            /\ Cur.name \in DOMAIN Get(config, BucketFor(Cur.kind), EmptyDict)) =>
               /\ pc' = "raised"
               /\ config' = config ]_vars

\* A second resource was refused under a name its bucket held for another.
C3_Witness ==
    /\ pc = "raised"
    /\ Handled
    /\ Last.name \in DOMAIN Get(config, BucketFor(Last.kind), EmptyDict)
    /\ config[BucketFor(Last.kind)][Last.name].res # Last.id

(***************************************************************************)
(* C4.  The same name under different kinds.                               *)
(***************************************************************************)
\* The kind of a stored resource.
KindOfEntry(e) == IF e.unwrapped THEN "Module" ELSE Catalog[e.res].kind

\* Some bucket holds a resource under the name of r.
NameTaken(r) == \E b \in DOMAIN config : r.name \in DOMAIN config[b]

\* What "both are stored" asks of a step that handles Cur.
StoredBeside ==
    /\ pc' # "raised"
    /\ \E b \in DOMAIN config' :
          /\ Cur.name \in DOMAIN config'[b]
          /\ config'[b][Cur.name].res = Cur.id
    /\ \A b \in DOMAIN config : \A n \in DOMAIN config[b] :
          n \in DOMAIN config'[b] /\ config'[b][n] = config[b][n]

\* C4 as stated: a resource that passes the filter and validation, and
\* whose name is held only by resources of other kind strings, is stored
\* beside them and no duplicate-name error is raised.
C4_Original ==
    [][ (/\ Handling /\ Stepped /\ Storable(Cur) /\ NameTaken(Cur)
         /\ \A b \in DOMAIN config :
               Cur.name \in DOMAIN config[b] =>
                   KindOfEntry(config[b][Cur.name]) # Cur.kind)
        => StoredBeside ]_vars

\* C4, amended: a resource that passes the filter and validation, and whose
\* name is held only in buckets other than the one its kind is filed under,
\* is stored beside them, in its own bucket, and no duplicate-name error is
\* raised.
C4_DifferentBuckets ==
    [][ (/\ Handling /\ Stepped /\ Storable(Cur) /\ NameTaken(Cur)
         /\ \A b \in DOMAIN config :
               Cur.name \in DOMAIN config[b] => b # BucketFor(Cur.kind))
        => /\ StoredBeside
           /\ config'[BucketFor(Cur.kind)][Cur.name].res = Cur.id ]_vars

\* Two buckets hold different resources under one name.
C4_Witness ==
    \E b1 \in DOMAIN config : \E b2 \in DOMAIN config \ {b1} :
        \E n \in DOMAIN config[b1] \cap DOMAIN config[b2] :
            config[b1][n].res # config[b2][n].res

(***************************************************************************)
(* C5.  Missing apiVersion, kind or name.                                  *)
(***************************************************************************)
\* r lacks apiVersion, kind or (not being a Pragma) name.
MissingField(r) ==
    r.apiVersion = << >> \/ r.kind = "" \/ (r.kind # "Pragma" /\ ~r.hasName)

\* status is a failure that names a field r lacks.
NamesMissingField(status, r) ==
    /\ ~status.ok
    /\ \/ status.msg = "need apiVersion" /\ r.apiVersion = << >>
       \/ status.msg = "need kind" /\ r.kind = ""
       \/ status.msg = "need name" /\ ~r.hasName

\* C5: when load_all processes a resource that lacks apiVersion, kind or
\* (not being a Pragma) name, process returns a failure naming a missing
\* field, the resource is then in sources under its rkey, no bucket changes,
\* and no bucket ever holds such a resource.
C5_MissingField ==
    [][ /\ \A id \in Inputs : MissingField(Catalog[id]) => ~InBuckets(id)'
        /\ (Handling /\ Stepped /\ ~Skipped(Cur) /\ MissingField(Cur)) =>
               /\ pc' = "loading"
               /\ NamesMissingField(rc', Cur)
               /\ Cur.rkey \in DOMAIN sources'
               /\ sources'[Cur.rkey] = Cur.id
               /\ config' = config ]_vars

\* A resource without one of its fields was processed and is the source of
\* its rkey.
C5_Witness ==
    /\ Handled
    /\ MissingField(Last)
    /\ NamesMissingField(rc, Last)
    /\ Last.rkey \in DOMAIN sources
    /\ sources[Last.rkey] = Last.id

(***************************************************************************)
(* C6.  Pragma override ordering.                                          *)
(***************************************************************************)
\* r is processed as a Pragma that names a source.
SourcePragma(r) ==
    ~Skipped(r) /\ r.kind = "Pragma" /\ r.apiVersion # << >> /\ r.hasSource

\* The places before the loop's present one that hold a Pragma with a source
\* for the rkey of Cur.
PragmasBefore ==
    {j \in 1..(idx - 1) :
        SourcePragma(Catalog[resources[j]]) /\ Catalog[resources[j]].rkey = Cur.rkey}

LastOf(S) == CHOOSE j \in S : \A k \in S : k <= j

\* C6, for the first load_all on a Config: a resource that load_all reaches
\* has as its location the source of the Pragma processed last before it
\* for its rkey, and keeps its location when no Pragma was processed before
\* it for its rkey.
C6_PragmaOverride ==
    [][ (Handling /\ Stepped /\ used = Len(resources)) =>
          location'[Cur.id] =
              IF PragmasBefore = {}
              THEN location[Cur.id]
              ELSE Catalog[resources[LastOf(PragmasBefore)]].source ]_vars

(***************************************************************************)
(* C7.  What a Pragma changes.                                             *)
(***************************************************************************)
\* C7: processing a Pragma that has an apiVersion leaves buckets, sources,
\* the schema cache, the errors ledger, the errors attached to resources and
\* the two counters as they were, returns OK, and changes
\* location_overrides only at the Pragma's rkey, to its source, and only
\* when it has one.
C7_PragmaFrame ==
    [][ (/\ Handling /\ Stepped /\ ~Skipped(Cur)
         /\ Cur.kind = "Pragma" /\ Cur.apiVersion # << >>) =>
          /\ config' = config
          /\ sources' = sources
          /\ schemas' = schemas
          /\ errors' = errors
          /\ rerrors' = rerrors
          /\ fatal_errors' = fatal_errors
          /\ object_errors' = object_errors
          /\ pc' = "loading"
          /\ rc'.ok
          /\ IF Cur.hasSource
             THEN /\ DOMAIN location_overrides' = DOMAIN location_overrides \cup {Cur.rkey}
                  /\ DOMAIN location_overrides'[Cur.rkey] = {"source"}
                  /\ location_overrides'[Cur.rkey]["source"] = Cur.source
                  /\ \A k \in DOMAIN location_overrides \ {Cur.rkey} :
                        location_overrides'[k] = location_overrides[k]
             ELSE location_overrides' = location_overrides ]_vars

\* A Pragma with a source was processed on a Config that holds nothing but
\* its bootstrap sources.
C7_Witness ==
    /\ Handled
    /\ Last.kind = "Pragma"
    /\ rc = OK("handled pragma object", << >>)
    /\ Last.rkey \in DOMAIN location_overrides
    /\ DOMAIN config = {}
    /\ Cardinality(DOMAIN sources) = 2

(***************************************************************************)
(* C8.  Schemas are optional, and strict where present.                    *)
(***************************************************************************)
\* r has a supported apiVersion and reaches validate_object.
Supported(r) == Complete(r) /\ StartsWithAmbassador(r.apiVersion)

\* The schema file of r's version and kind, and whether r's payload breaks it.
SchemaFileOf(r) == SchemaFile(r.apiVersion[2], r.kind)
Violates(r) == <<r.apiVersion[2], r.kind>> \notin r.satisfies

\* The errors ledger holds the failure status for r, and it names r's kind.
Rejected(status, r) ==
    /\ ~status.ok
    /\ status.msg = "not a valid %s: %s"
    /\ status.args = <<r.kind>>

\* C8: a resource with a supported apiVersion whose version and kind have no
\* schema file gets no error, whatever its payload (process goes on to the
\* handler and returns OK, unless the handler raises); one whose schema
\* file exists and whose payload violates it gets a failure naming its kind, appended to the errors ledger under its rkey,
\* load_all goes on, and no bucket changes or ever holds such a resource.
C8_SchemaOptional ==
    [][ /\ \A id \in Inputs :
              (/\ Supported(Catalog[id])
               /\ SchemaFileOf(Catalog[id]) = "schema"
               /\ Violates(Catalog[id])) => ~InBuckets(id)'
        /\ (/\ Handling /\ Stepped /\ ~Skipped(Cur) /\ Supported(Cur)
            /\ SchemaFileOf(Cur) = "absent") =>
               /\ errors' = errors
               /\ pc' = "raised" \/ rc'.ok
        /\ (/\ Handling /\ Stepped /\ ~Skipped(Cur) /\ Supported(Cur)
            /\ SchemaFileOf(Cur) = "schema" /\ Violates(Cur)) =>
               /\ pc' = "loading"
               /\ Rejected(rc', Cur)
               /\ Cur.rkey \in DOMAIN errors'
               /\ errors'[Cur.rkey] =
                     Append(Get(errors, Cur.rkey, << >>), toDict(rc'))
               /\ config' = config ]_vars

\* A resource of a kind without a schema file is stored although its
\* payload conforms to no schema, and a resource that violates its schema
\* is in the errors ledger.
C8_Witness ==
    /\ \E id \in Inputs :
          /\ InBuckets(id)
          /\ Supported(Catalog[id])
          /\ SchemaFileOf(Catalog[id]) = "absent"
          /\ Catalog[id].satisfies = {}
    /\ \E id \in Inputs :
          /\ InSources(id)
          /\ Supported(Catalog[id])
          /\ Violates(Catalog[id])
          /\ Catalog[id].rkey \in DOMAIN errors
          /\ Len(rerrors[id]) > 0
          /\ rerrors[id][1].text = "not a valid %s: %s"

(***************************************************************************)
(* C9.  An unsupported apiVersion.                                         *)
(***************************************************************************)
\* C9: a resource whose apiVersion does not begin with "ambassador/" fails
\* with the error 'apiVersion <apiVersion> unsupported', whatever the schema
\* directory and the schema cache hold for its kind, and the schema cache
\* and the buckets are left as they were.
C9_Unsupported ==
    [][ (/\ Handling /\ Stepped /\ ~Skipped(Cur) /\ Complete(Cur)
         /\ ~(Len(Cur.apiVersion) >= 2 /\ Cur.apiVersion[1] = "ambassador")) =>
          /\ pc' = "loading"
          /\ rc' = fromError("apiVersion %s unsupported", Cur.apiVersion)
          /\ schemas' = schemas
          /\ config' = config
          /\ Cur.rkey \in DOMAIN errors'
          /\ errors'[Cur.rkey] = Append(Get(errors, Cur.rkey, << >>), toDict(rc')) ]_vars

\* The unsupported resource was handled while the schema of its kind was
\* cached, and its kind has a schema file under the version it names.
C9_Witness ==
    /\ Handled
    /\ Complete(Last)
    /\ ~StartsWithAmbassador(Last.apiVersion)
    /\ rc = fromError("apiVersion %s unsupported", Last.apiVersion)
    /\ SchemaKey(Last.apiVersion[Len(Last.apiVersion)], Last.kind) \in DOMAIN schemas
    /\ SchemaFile(Last.apiVersion[Len(Last.apiVersion)], Last.kind) = "schema"

ModuleNames == {Catalog[id].name : id \in Inputs} \cup {"nomodule"}
LookupKeys == {"foo", "baz"}
Defaults == {"dflt", "other"}

\* C11: once a Module named N with config body B has been processed,
\* bucket modules holds under N the resource made from it, and
\* module_lookup(N, k, d) is B[k] for a key k of B and d for any other key;
\* for a name the modules bucket does not hold, get_module is None and
\* module_lookup is d.
C11_ModuleLookup ==
    [][ /\ (/\ Handling /\ Stepped /\ Storable(Cur) /\ Cur.kind = "Module"
            /\ pc' # "raised") =>
               \E N \in {Cur.name} : \E B \in {Cur.config} : \E id \in {Cur.id} :
                  /\ get_module(World, N)' = [res |-> id, unwrapped |-> TRUE]
                  /\ \A k \in LookupKeys : \A d \in Defaults :
                        module_lookup(World, N, k, d)' =
                            IF k \in DOMAIN B THEN B[k] ELSE d
        /\ \A N \in ModuleNames :
              (N \notin DOMAIN Get(config', "modules", EmptyDict)) =>
                  /\ get_module(World, N)' = None
                  /\ \A k \in LookupKeys : \A d \in Defaults :
                        module_lookup(World, N, k, d)' = d ]_vars

\* A Module is stored, a key of its body is found and another is not, and
\* a module that was never stored is None.
C11_Witness ==
    /\ Handled
    /\ Last.kind = "Module"
    /\ rc.ok
    /\ module_lookup(World, Last.name, "foo", "dflt") = "bar"
    /\ module_lookup(World, Last.name, "baz", "dflt") = "dflt"
    /\ get_module(World, "nomodule") = None
    /\ module_lookup(World, "nomodule", "foo", "dflt") = "dflt"

(***************************************************************************)
(* C12.  End to end: a clean pass.                                         *)
(***************************************************************************)
\* The kinds with a handler of their own.
RegisteredKinds ==
    {"Module", "RateLimitService", "TracingService", "AuthService", "Mapping"}

\* r is a valid resource of a registered kind, owned by the configured
\* identity: it has its fields and a supported apiVersion, and its payload
\* conforms to the schema file of its version and kind, if there is one.
ValidRegistered(r) ==
    /\ Supported(r)
    /\ r.kind \in RegisteredKinds
    /\ ~Excludes(r)
    /\ SchemaFileOf(r) = "schema" => ~Violates(r)

\* The call in progress is the first on its Config, and its resources are
\* valid, of registered kinds, with distinct names and distinct rkeys.
CleanSequence ==
    /\ used = Len(resources)
    /\ \A i \in 1..Len(resources) : ValidRegistered(Catalog[resources[i]])
    /\ \A i \in 1..Len(resources) : \A j \in 1..Len(resources) :
          i # j => /\ Catalog[resources[i]].name # Catalog[resources[j]].name
                   /\ Catalog[resources[i]].rkey # Catalog[resources[j]].rkey

\* The places (bucket and name) where resource id is stored.
PlacesOf(id) ==
    {<<b, n>> \in UNION {{<<b2, n2>> : n2 \in DOMAIN config[b2]} : b2 \in DOMAIN config} :
        config[b][n].res = id}

\* C12: load_all on a fresh Config over valid resources of registered
\* kinds with distinct names and rkeys, all owned, does not raise, and when
\* it returns it has handled them all, each is stored exactly once, under
\* its name in the bucket of its kind, fatal_errors is 0, the errors ledger
\* is empty and the keys of sources are their rkeys and the two bootstrap
\* rkeys.
C12_EndToEnd ==
    CleanSequence =>
        /\ pc # "raised"
        /\ pc = "returned" =>
              /\ idx > Len(resources)
              /\ \A i \in 1..Len(resources) :
                    PlacesOf(resources[i]) =
                        {<<BucketFor(Catalog[resources[i]].kind), Catalog[resources[i]].name>>}
              /\ fatal_errors = 0
              /\ errors = EmptyDict
              /\ DOMAIN sources =
                    {Catalog[resources[i]].rkey : i \in 1..Len(resources)}
                        \cup {"--internal--", "--diagnostics--"}

\* A pass over a Mapping, an AuthService and a third resource has returned.
C12_Witness ==
    /\ CleanSequence
    /\ pc = "returned"
    /\ Len(resources) = 3
    /\ \E i \in 1..3 : Catalog[resources[i]].kind = "Mapping"
    /\ \E i \in 1..3 : Catalog[resources[i]].kind = "AuthService"
    /\ DOMAIN config = {"mappings", "auth_configs", "modules"}

(***************************************************************************)
(* C13.  Every error is attached to its resource and to the ledger.        *)
(***************************************************************************)
\* C13 as stated: whenever handling a resource ends in an error, a failure
\* returned by process or an exception raised by the store or a handler, a
\* record is appended to the errors attached to that resource and to the
\* errors ledger under its rkey.
C13_EveryErrorPosted ==
    [][ (/\ Handling /\ Stepped
         /\ pc' = "raised" \/ (pc' = "loading" /\ ~rc'.ok)) =>
          /\ Len(rerrors'[Cur.id]) = Len(rerrors[Cur.id]) + 1
          /\ Cur.rkey \in DOMAIN errors'
          /\ Len(errors'[Cur.rkey]) = Len(Get(errors, Cur.rkey, << >>)) + 1 ]_vars

(***************************************************************************)
(* C14.  A recoverable error does not abort the batch.                     *)
(***************************************************************************)
\* process reports a failure for r, whatever the Config holds: r passes the
\* filter and lacks a field, has an unsupported apiVersion, or violates the
\* schema file of its version and kind.
Recoverable(r) ==
    /\ ~Skipped(r)
    /\ \/ MissingField(r)
       \/ Complete(r) /\ ~StartsWithAmbassador(r.apiVersion)
       \/ Supported(r) /\ SchemaFileOf(r) = "schema" /\ Violates(r)

\* C14 as stated: when process reports a failure for a resource, load_all
\* records the error and goes on with the next resource; and when load_all
\* returns after such a failure, its loop has been through every remaining
\* resource of the sequence.
C14_ErrorsDoNotAbort ==
    [][ /\ (Handling /\ Stepped /\ Recoverable(Cur)) =>
               /\ pc' = "loading"
               /\ idx' = idx + 1
               /\ ~rc'.ok
               /\ Cur.rkey \in DOMAIN errors'
               /\ errors'[Cur.rkey] = Append(Get(errors, Cur.rkey, << >>), toDict(rc'))
        /\ (/\ pc' = "returned"
            /\ \E i \in 1..(idx' - 1) : Recoverable(Catalog[resources'[i]])) =>
               idx' > Len(resources') ]_vars

(***************************************************************************)
(* C15.  A pass with a fatal error is rejected.                            *)
(***************************************************************************)
\* Storing r raises: r reaches its handler, and the bucket of its kind
\* holds its name.
DuplicateName(r) ==
    /\ Storable(r)
    /\ Lower(r.kind) # "pragma"
    /\ r.name \in DOMAIN Get(config, BucketFor(r.kind), EmptyDict)

\* C15: when the store or a handler raises for a resource, load_all ends by
\* raising there and then: it does not return, and it handles no further
\* resource of the call.  load_all raises for no other reason.
C15_FatalRejects ==
    [][ /\ (Handling /\ Stepped) => (DuplicateName(Cur) <=> pc' = "raised")
        /\ pc = "raised" =>
               /\ pc' # "returned"
               /\ pc' = "loading" => (idx' = 1 /\ used' >= used) ]_vars

\* load_all has raised on a duplicate name, with a resource of the call
\* still to come and nothing in the errors ledger.
C15_Witness ==
    /\ pc = "raised"
    /\ Handled
    /\ idx <= Len(resources)
    /\ errors = EmptyDict
    /\ \E b \in DOMAIN config : \E n \in DOMAIN config[b] :
          n = Last.name /\ b = BucketFor(Last.kind)

(***************************************************************************)
(* C16.  The bucket of a kind.                                             *)
(***************************************************************************)
\* C16 as stated: every resource whose kind is not Pragma and for which
\* process returns OK is then stored in exactly one place: under its name,
\* in the bucket of its kind (modules, ratelimit_configs, tracing_configs,
\* auth_configs, mappings, or the kind itself when no handler is
\* registered), a Module as the resource made from it and any other
\* resource as it was parsed.
C16_KindBuckets ==
    [][ (/\ Handling /\ Stepped /\ Cur.kind # "Pragma"
         /\ pc' = "loading" /\ rc'.ok) =>
          \E id \in {Cur.id} : \E b \in {BucketFor(Cur.kind)} : \E n \in {Cur.name} :
             \E u \in {Cur.kind = "Module"} :
                /\ PlacesOf(id)' = {<<b, n>>}
                /\ config'[b][n] = [res |-> id, unwrapped |-> u] ]_vars

(***************************************************************************)
(* C17.  The schema cache.                                                 *)
(***************************************************************************)
\* The cache key of r's version and kind.
SchemaKeyOf(r) == SchemaKey(r.apiVersion[2], r.kind)

\* C17 as stated: after validate_object on a resource with a supported
\* apiVersion, the cache holds an entry for its version and kind exactly
\* when a schema file is there for them, and the entry is the document of
\* that file; a missing or unreadable file leaves the cache as it was and
\* does not fail the resource; and a resource is rejected only for
\* violating the schema file of its own version and kind.
C17_SchemaCache ==
    [][ (Handling /\ Stepped /\ ~Skipped(Cur) /\ Supported(Cur)) =>
          \E key \in {SchemaKeyOf(Cur)} :
             /\ key \in DOMAIN schemas' <=> SchemaFileOf(Cur) = "schema"
             /\ key \in DOMAIN schemas' =>
                   schemas'[key] = SchemaDocument(Cur.apiVersion[2], Cur.kind)
             /\ SchemaFileOf(Cur) \in {"absent", "corrupt"} =>
                   /\ schemas' = schemas
                   /\ pc' = "raised" \/ rc'.ok
             /\ (pc' = "loading" /\ ~rc'.ok) =>
                   (SchemaFileOf(Cur) = "schema" /\ Violates(Cur)) ]_vars

(***************************************************************************)
(* C18.  Who writes location_overrides.                                    *)
(***************************************************************************)
\* C18 as stated: location_overrides changes only in a step that processes
\* a resource whose kind is exactly Pragma.
C18_OnlyPragma ==
    [][ location_overrides' # location_overrides =>
            (Handling /\ Stepped /\ Cur.kind = "Pragma") ]_vars

(***************************************************************************)
(* C19.  The aggregate only grows during a pass.                           *)
(***************************************************************************)
\* C19: no step removes a bucket, removes or rebinds an entry of a bucket,
\* or removes a key of sources; the two bootstrap rkeys are keys of sources
\* in every state; and the errors of an rkey only grow at their end.
C19_Monotonic ==
    [][ /\ \A b \in DOMAIN config :
              /\ b \in DOMAIN config'
              /\ \A n \in DOMAIN config[b] :
                    n \in DOMAIN config'[b] /\ config'[b][n] = config[b][n]
        /\ DOMAIN sources \subseteq DOMAIN sources'
        /\ {"--internal--", "--diagnostics--"} \subseteq DOMAIN sources
        /\ {"--internal--", "--diagnostics--"} \subseteq DOMAIN sources'
        /\ \A k \in DOMAIN errors :
              /\ k \in DOMAIN errors'
              /\ Len(errors'[k]) >= Len(errors[k])
              /\ SubSeq(errors'[k], 1, Len(errors[k])) = errors[k] ]_vars

\* An rkey has two errors, a bucket holds a resource, and sources holds two
\* rkeys beside the bootstrap ones.
C19_Witness ==
    /\ \E k \in DOMAIN errors : Len(errors[k]) >= 2
    /\ DOMAIN config # {}
    /\ Cardinality(DOMAIN sources) >= 4

(***************************************************************************)
(* C20.  Traceability.                                                     *)
(***************************************************************************)
\* C20: every rkey of the errors ledger is a key of sources, and once
\* process has been given a resource that is not a Pragma and has its
\* apiVersion, kind and name, that resource is the source of its rkey,
\* whether its validation succeeds or fails and whether or not its handler
\* raises.
C20_Traceability ==
    [][ /\ DOMAIN errors \subseteq DOMAIN sources
        /\ DOMAIN errors' \subseteq DOMAIN sources'
        /\ (Handling /\ Stepped /\ ~Skipped(Cur) /\ Complete(Cur)) =>
               /\ Cur.rkey \in DOMAIN sources'
               /\ sources'[Cur.rkey] = Cur.id ]_vars

\* A resource at an overridden location has failed its validation, and is
\* the source of its rkey in the ledger.
C20_Witness ==
    /\ Handled
    /\ Complete(Last)
    /\ pc = "loading"
    /\ ~rc.ok
    /\ location[Last.id] # Last.rkey
    /\ Last.rkey \in DOMAIN errors
    /\ sources[Last.rkey] = Last.id

(***************************************************************************)
(* C21.  The two counters.                                                 *)
(***************************************************************************)
\* C21: fatal_errors and object_errors are 0 in every state, whatever
\* errors are posted, and the checks after the loop of load_all never
\* raise: once the loop is over, load_all returns.
C21_CountersStayZero ==
    [][ /\ fatal_errors = 0 /\ object_errors = 0
        /\ fatal_errors' = 0 /\ object_errors' = 0
        /\ (pc = "loading" /\ idx > Len(resources) /\ pc' # pc) =>
               pc' = "returned" ]_vars

\* load_all has been through its whole sequence and returned, with errors
\* in the ledger and attached to a resource, and both counters 0.
C21_Witness ==
    /\ pc = "returned"
    /\ idx > Len(resources)
    /\ errors # EmptyDict
    /\ \E id \in Inputs : Len(rerrors[id]) >= 2
    /\ fatal_errors = 0
    /\ object_errors = 0

=============================================================================
